---- MODULE Spec2Model ----
(***************************************************************************)
(* Model of gui/tools/FuseDepthTool.cxx (TeleSculptor): the "Fuse Depth    *)
(* Maps" tool.  Three parts are modelled:                                  *)
(*   - load_depth_map   : .vti depth-map file -> kwiver image              *)
(*   - volume_to_vtk    : kwiver volume -> vtk structured grid             *)
(*   - FuseDepthTool::execute / FuseDepthTool::run : the tool itself        *)
(* Each part has its own specification (SpecCodec, SpecAdapter, Spec).     *)
(***************************************************************************)
EXTENDS Integers, Sequences, FiniteSets, TLC

\* ------------------------------------------------------------------ bounds
MaxW     == 2   \* largest width of a depth-map file explored by SpecCodec
MaxH     == 3   \* largest height of a depth-map file explored by SpecCodec
MaxNz    == 2   \* largest third dimension of a depth-map file
MaxSeed  == 2   \* depth-map / volume contents are Seed + labelled values
MaxDim   == 2   \* largest size of a volume on each axis (SpecAdapter)
MaxCoord == 1   \* origin coordinates range over -1..MaxCoord
MaxSpace == 2   \* spacing ranges over 1..MaxSpace
MaxFrame == 2   \* frame ids range over 1..MaxFrame
MaxRuns  == 2   \* number of times the tool is executed

\* A pixel or array slot that was allocated but never written
\* (kwiver::vital::image and vtkDoubleArray allocate without initialising).
Indeterminate == -1

\* ------------------------------------------------------------ small helpers
Range(n) == 0 .. (n - 1)

\* ======================================================================
\*  kwiver::vital::image  (width, height, depth, pixels)
\* ======================================================================

\* kwiver::vital::image(w, h, d, false, traits): memory is allocated and not
\* initialised. px holds the pixel values, wr counts the writes to each pixel.
NewImage(w, h, d) ==
  [ width  |-> w, height |-> h, depth |-> d,
    px |-> [ p \in Range(w) \X Range(h) \X Range(d) |-> Indeterminate ],
    wr |-> [ p \in Range(w) \X Range(h) \X Range(d) |-> 0 ] ]

\* ======================================================================
\*  Depth-map files and vtkXMLImageDataReader
\* ======================================================================

\* What the point-data array "Depths" of a file can be.
DepthsTypes == { "double", "float", "absent" }

\* The contents of a file's "Depths" array: one value per grid point, in point
\* order; every point carries a distinct value (seed + point id), so that any
\* permutation of the pixels is visible.
LabelledPoints(dims, seed) ==
  [ pt \in Range(dims[1] * dims[2] * dims[3]) |-> seed + pt ]

VtiFile(readable, dims, type, seed) ==
  [ readable |-> readable, dims |-> dims, depthsType |-> type,
    points |-> LabelledPoints(dims, seed) ]

\* depthReader->Update(); img = depthReader->GetOutput(): a file that cannot
\* be read leaves the reader's output an empty vtkImageData (dimensions
\* 0,0,0 and no arrays).
ReaderOutput(file) ==
  IF file.readable
    THEN [ dims |-> file.dims, depthsType |-> file.depthsType,
           points |-> file.points ]
    ELSE [ dims |-> <<0, 0, 0>>, depthsType |-> "absent",
           points |-> LabelledPoints(<<0, 0, 0>>, 0) ]

\* dynamic_cast<vtkDoubleArray*>(img->GetPointData()->GetArray("Depths")):
\* null when the array is absent or is not a vtkDoubleArray.
DepthsIsNull(img) == img.depthsType # "double"

\* The copy loops of load_depth_map, with the code's loop variables:
\*   for (y = dims[1]-1; y >= 0; y--) for (x = 0; x < dims[0]; x++)
\*     { depth.at<double>(x, y) = depths->GetValue(pt_id); pt_id++; }
RECURSIVE CopyDepths(_, _, _, _, _, _)
CopyDepths(dims, points, y, x, pt_id, depth) ==
  IF y < 0 THEN depth
  ELSE IF x >= dims[1] THEN CopyDepths(dims, points, y - 1, 0, pt_id, depth)
  ELSE CopyDepths(dims, points, y, x + 1, pt_id + 1,
         [ depth EXCEPT !.px[<<x, y, 0>>] = points[pt_id],
                        !.wr[<<x, y, 0>>] = @ + 1 ])

\* A bug the row inversion could hide: rows copied top to bottom.
RECURSIVE CopyDepthsNoFlip(_, _, _, _, _, _)
CopyDepthsNoFlip(dims, points, y, x, pt_id, depth) ==
  IF y < 0 THEN depth
  ELSE IF x >= dims[1]
    THEN CopyDepthsNoFlip(dims, points, y - 1, 0, pt_id, depth)
  ELSE CopyDepthsNoFlip(dims, points, y, x + 1, pt_id + 1,
         [ depth EXCEPT !.px[<<x, dims[2] - 1 - y, 0>>] = points[pt_id],
                        !.wr[<<x, dims[2] - 1 - y, 0>>] = @ + 1 ])

DecodeNoFlip(img) ==
  CopyDepthsNoFlip(img.dims, img.points, img.dims[2] - 1, 0, 0,
                   NewImage(img.dims[1], img.dims[2], img.dims[3]))

\* load_depth_map with a non-null depths array: allocate, then copy.
Decode(img) ==
  CopyDepths(img.dims, img.points, img.dims[2] - 1, 0, 0,
             NewImage(img.dims[1], img.dims[2], img.dims[3]))

\* The outcomes of load_depth_map(filename) on a file.  When depths is null and
\* the loop body runs at least once, depths->GetValue() is called through a
\* null pointer: undefined behaviour, which either ends the process or leaves
\* the pixels with indeterminate values.
load_depth_map(file) ==
  LET img == ReaderOutput(file)
      blank == NewImage(img.dims[1], img.dims[2], img.dims[3])
  IN  IF ~DepthsIsNull(img)
        THEN { [ crashed |-> FALSE, image |-> Decode(img) ] }
      ELSE IF img.dims[1] = 0 \/ img.dims[2] = 0
        THEN { [ crashed |-> FALSE, image |-> blank ] }
      ELSE { [ crashed |-> TRUE,  image |-> blank ],
             [ crashed |-> FALSE, image |-> blank ] }

\* ======================================================================
\*  volume_to_vtk
\* ======================================================================

\* A volume as integrate() returns it: a width x height x depth image whose
\* voxels all hold distinct values (seed + a label of the voxel's position).
LabelledVolume(w, h, d, seed) ==
  [ width |-> w, height |-> h, depth |-> d,
    px |-> [ p \in Range(w) \X Range(h) \X Range(d) |->
               seed + p[1] + 10 * p[2] + 100 * p[3] ] ]

\* vtkDoubleArray after SetName / SetNumberOfComponents / SetNumberOfTuples:
\* n tuples are allocated, none is set.
NewDoubleArray(name, comps, n) ==
  [ name |-> name, components |-> comps,
    tuples |-> [ id \in Range(n) |-> Indeterminate ] ]

\* The fill loops of volume_to_vtk, with the code's loop variables:
\*   for k < depth, for j < height, for i < width:
\*     vals->SetTuple1(pt_id++, vol.at<double>(i, j, k));
RECURSIVE FillTuples(_, _, _, _, _, _)
FillTuples(vol, k, j, i, pt_id, vals) ==
  IF k >= vol.depth THEN vals
  ELSE IF j >= vol.height THEN FillTuples(vol, k + 1, 0, 0, pt_id, vals)
  ELSE IF i >= vol.width  THEN FillTuples(vol, k, j + 1, 0, pt_id, vals)
  ELSE FillTuples(vol, k, j, i + 1, pt_id + 1,
         [ vals EXCEPT !.tuples[pt_id] = vol.px[<<i, j, k>>] ])

\* A bug the loop order could hide: the voxel read with i and j exchanged
\* roles (column-major instead of row-major).
RECURSIVE FillTuplesColumnMajor(_, _, _, _, _, _)
FillTuplesColumnMajor(vol, k, i, j, pt_id, vals) ==
  IF k >= vol.depth THEN vals
  ELSE IF i >= vol.width  THEN FillTuplesColumnMajor(vol, k + 1, 0, 0, pt_id, vals)
  ELSE IF j >= vol.height THEN FillTuplesColumnMajor(vol, k, i + 1, 0, pt_id, vals)
  ELSE FillTuplesColumnMajor(vol, k, i, j + 1, pt_id + 1,
         [ vals EXCEPT !.tuples[pt_id] = vol.px[<<i, j, k>>] ])

ScalarsColumnMajor(volume) ==
  FillTuplesColumnMajor(volume, 0, 0, 0, 0,
    NewDoubleArray("reconstruction_scalar", 1,
                   volume.width * volume.height * volume.depth))

\* The scalar array volume_to_vtk builds from the volume.
Scalars(volume) ==
  FillTuples(volume, 0, 0, 0, 0,
    NewDoubleArray("reconstruction_scalar", 1,
                   volume.width * volume.height * volume.depth))

\* volume_to_vtk: a vtkImageData with the given origin and spacing whose
\* dimensions (its number of POINTS on each axis) are the volume's sizes, with
\* the scalar array added to its CELL data; vtkImageDataToPointSet then turns
\* it into a vtkStructuredGrid with the same dimensions, the points
\* origin + index * spacing, and the cell data passed through.
volume_to_vtk(volume, origin, spacing) ==
  [ origin  |-> origin,
    dims    |-> << volume.width, volume.height, volume.depth >>,
    spacing |-> spacing,
    cellData |-> << Scalars(volume) >> ]

\* vtkStructuredGrid::GetNumberOfCells for grid dimensions dims (points per
\* axis): no cell if a dimension is 0, otherwise the product of (dim - 1) over
\* the axes with more than one point.
NumberOfCells(grid) ==
  LET n(a) == IF grid.dims[a] <= 1 THEN 1 ELSE grid.dims[a] - 1
  IN  IF \E a \in 1..3 : grid.dims[a] = 0 THEN 0 ELSE n(1) * n(2) * n(3)

\* The grid has points at origin + index * spacing, index in 0 .. dim-1.
HasPoints(grid) == \A a \in 1..3 : grid.dims[a] > 0
BoundMin(grid, a) == grid.origin[a]
BoundMax(grid, a) == grid.origin[a] + (grid.dims[a] - 1) * grid.spacing[a]

\* ======================================================================
\*  FuseDepthTool: state
\* ======================================================================
VARIABLES
  pc,               \* stage of the current run
  runs,             \* number of calls of execute() so far
  cameras,          \* tool data: camera map (this->cameras()), may be null
  depths,           \* tool data: depth lookup (this->depthLookup()), may be null
  roi,              \* tool data: region of interest (this->ROI())
  cancelRequested,  \* tool data: the host asked the running tool to stop
  fuse_algo,        \* FuseDepthToolPrivate::fuse_algo
  config,           \* execute(): the configuration block being checked
  msg,              \* title of the message box execute() showed, or "none"
  result,           \* what execute() returned: "pending", "true", "false"
  itr,              \* run(): iterator over the depth lookup (a key, or End)
  cameras_out,      \* run(): cameras_out
  depths_out,       \* run(): depths_out
  minpt, maxpt,     \* run(): ROI corners
  volume, spacing,  \* run(): outputs of integrate()
  algoAtEntry,      \* history: fuse_algo when execute() was entered
  configRead,       \* history: "unread", "missing" or "found" (readConfig)
  loaded,           \* history: file names given to load_depth_map this run
  integrate_calls,  \* history: arguments of each integrate() call this run
  published,        \* history: grids given to updateFusion() this run
  cd_pc, cd_file, cd_image,                        \* SpecCodec
  va_pc, va_volume, va_origin, va_spacing, va_grid \* SpecAdapter

toolVars  == << pc, runs, cameras, depths, roi, cancelRequested, fuse_algo,
                config, msg, result, itr, cameras_out, depths_out, minpt,
                maxpt, volume, spacing, algoAtEntry, configRead, loaded,
                integrate_calls, published >>
codecVars == << cd_pc, cd_file, cd_image >>
adaptVars == << va_pc, va_volume, va_origin, va_spacing, va_grid >>
vars      == << toolVars, codecVars, adaptVars >>

\* ---------------------------------------------------------------- tool data
Frames == 1 .. MaxFrame

\* std::map<frame_id_t, ...>::end(): no key.
End == 0

\* A camera of the camera map: the camera object of frame id, which is a
\* camera_perspective or some other kind of camera.
Camera(id, kind) == [ id |-> id, kind |-> kind ]
NullCamera == Camera(0, "null")

\* this->cameras(): a null pointer, or a camera map over some frames.
CameraMaps ==
  { [ null |-> TRUE, map |-> [ f \in {} |-> NullCamera ] ] } \cup
  { [ null |-> FALSE, map |-> [ f \in S |-> Camera(f, kind[f]) ] ] :
      S \in SUBSET Frames, kind \in [ Frames -> { "perspective", "rpc" } ] }

\* The depth-map files on disk, by name.
FileNames == { "a.vti", "b.vti", "missing.vti", "nodepths.vti" }
FileSystem(name) ==
  CASE name = "a.vti"        -> VtiFile(TRUE,  <<1, 2, 1>>, "double", 1)
    [] name = "b.vti"        -> VtiFile(TRUE,  <<2, 1, 1>>, "double", 5)
    [] name = "missing.vti"  -> VtiFile(FALSE, <<0, 0, 0>>, "absent", 0)
    [] name = "nodepths.vti" -> VtiFile(TRUE,  <<1, 1, 1>>, "absent", 0)

\* this->depthLookup(): a null pointer, or a map frame id -> file name.
DepthLookups ==
  { [ null |-> TRUE, map |-> [ f \in {} |-> "a.vti" ] ] } \cup
  { [ null |-> FALSE, map |-> m ] :
      m \in UNION { [ S -> FileNames ] : S \in SUBSET Frames } }

\* this->ROI(): a box with a minimum and a maximum corner.
ROIs == { [ min |-> <<-1, 0, 1>>, max |-> <<1, 2, 3>> ] }

\* AbstractTool::hasCameras / hasDepthLookup: the data is present and not
\* empty.
hasCameras     == ~cameras.null /\ DOMAIN cameras.map # {}
hasDepthLookup == ~depths.null  /\ DOMAIN depths.map # {}

\* ------------------------------------------------------------ configuration
BLOCK_IDM == "integrate_depth_maps"
TypeKey   == "integrate_depth_maps:type"

\* A config block: values of some of the keys (only the type key matters).
TypeValues   == { "cuda", "mvg", "bogus" }
ConfigBlocks == UNION { [ K -> TypeValues ] : K \in SUBSET { TypeKey } }
EmptyConfig  == [ k \in {} |-> "bogus" ]

\* readConfig("gui_integrate_depth_maps.conf"): null if no such resource.
ConfigFiles ==
  { [ found |-> FALSE, block |-> EmptyConfig ] } \cup
  { [ found |-> TRUE, block |-> b ] : b \in ConfigBlocks }

\* config->merge_config(other): the values of other overwrite those of config.
merge_config(self, other) ==
  [ k \in DOMAIN self \cup DOMAIN other |->
      IF k \in DOMAIN other THEN other[k] ELSE self[k] ]

\* The integrate_depth_maps implementations that are registered.
RegisteredImpls == { "cuda", "mvg" }

\* A check that forgets to look the type up among the implementations.
check_type_present(name, cfg) == TypeKey \in DOMAIN cfg

\* integrate_depth_maps::check_nested_algo_configuration(BLOCK_IDM, config)
check_nested_algo_configuration(name, cfg) ==
  /\ TypeKey \in DOMAIN cfg
  /\ cfg[TypeKey] \in RegisteredImpls

\* integrate_depth_maps::set_nested_algo_configuration(BLOCK_IDM, config, algo):
\* the algorithm of the configured type.
set_nested_algo_configuration(name, cfg) == cfg[TypeKey]

\* ---------------------------------------------------------------- iteration
\* depths->begin() and itr++ on a std::map: keys in ascending order.
Begin(map) ==
  IF DOMAIN map = {} THEN End
  ELSE CHOOSE k \in DOMAIN map : \A j \in DOMAIN map : k <= j
NextKey(map, key) ==
  LET later == { j \in DOMAIN map : j > key }
  IN  IF later = {} THEN End
      ELSE CHOOSE k \in later : \A j \in later : k <= j

\* std::dynamic_pointer_cast<camera_perspective>(camitr->second)
camera_perspective_cast(cam) ==
  IF cam.kind = "perspective" THEN cam ELSE NullCamera

\* What integrate() can return: a volume and its spacing.
IntegrateResults ==
  { [ volume |-> LabelledVolume(0, 0, 0, 0), spacing |-> <<1, 1, 1>> ],
    [ volume |-> LabelledVolume(2, 1, 2, 3), spacing |-> <<1, 2, 1>> ] }

\* ======================================================================
\*  FuseDepthTool::execute
\* ======================================================================
RunStages == { "CollectingInputs", "Integrating", "Publishing" }
Ended     == { "Done", "FailedInsufficientData", "FailedConfigError" }

\* The host sets the tool's data and triggers the tool: execute() is entered.
Execute ==
  /\ pc = "Idle"
  /\ runs < MaxRuns
  /\ runs' = runs + 1
  /\ cameras' \in CameraMaps
  /\ depths' \in DepthLookups
  /\ roi' \in ROIs
  /\ cancelRequested' = FALSE
  /\ pc' = "ValidatingInputs"
  /\ msg' = "none"
  /\ result' = "pending"
  /\ algoAtEntry' = fuse_algo
  /\ configRead' = "unread"
  /\ config' = EmptyConfig
  /\ itr' = End
  /\ cameras_out' = << >>
  /\ depths_out' = << >>
  /\ loaded' = << >>
  /\ integrate_calls' = << >>
  /\ published' = << >>
  /\ minpt' = <<0, 0, 0>>
  /\ maxpt' = <<0, 0, 0>>
  /\ volume' = LabelledVolume(0, 0, 0, 0)
  /\ spacing' = <<0, 0, 0>>
  /\ UNCHANGED fuse_algo

\* A check that only fails when both inputs are missing.
BothMissing == ~hasCameras /\ ~hasDepthLookup

\* if (!this->hasCameras() || !this->hasDepthLookup())
InsufficientData == ~hasCameras \/ ~hasDepthLookup

\* // Check inputs
ValidateInputs ==
  /\ pc = "ValidatingInputs"
  /\ IF InsufficientData
       THEN /\ msg' = "Insufficient data"
            /\ result' = "false"
            /\ pc' = "FailedInsufficientData"
       ELSE /\ pc' = "LoadingConfig"
            /\ UNCHANGED << msg, result >>
  /\ UNCHANGED << runs, cameras, depths, roi, cancelRequested, fuse_algo,
                  config, itr, cameras_out, depths_out, minpt, maxpt, volume,
                  spacing, algoAtEntry, configRead, loaded, integrate_calls,
                  published >>

\* // Load configuration, // Check configuration, merge_config
LoadConfig ==
  /\ pc = "LoadingConfig"
  /\ \E file \in ConfigFiles, ambient \in ConfigBlocks :
       IF ~file.found
         THEN /\ configRead' = "missing"
              /\ msg' = "Configuration error"
              /\ result' = "false"
              /\ pc' = "FailedConfigError"
              /\ UNCHANGED config
         ELSE /\ configRead' = "found"
              /\ config' = merge_config(file.block, ambient)
              /\ pc' = "ConfiguringAlgorithm"
              /\ UNCHANGED << msg, result >>
  /\ UNCHANGED << runs, cameras, depths, roi, cancelRequested, fuse_algo, itr,
                  cameras_out, depths_out, minpt, maxpt, volume, spacing,
                  algoAtEntry, loaded, integrate_calls, published >>

\* A configure step that builds the algorithm whenever a type is given.
ConfigureAlgorithmUnchecked ==
  /\ pc = "ConfiguringAlgorithm"
  /\ IF ~check_type_present(BLOCK_IDM, config)
       THEN /\ msg' = "Configuration error"
            /\ result' = "false"
            /\ pc' = "FailedConfigError"
            /\ UNCHANGED << fuse_algo, itr >>
       ELSE /\ fuse_algo' = set_nested_algo_configuration(BLOCK_IDM, config)
            /\ result' = "true"
            /\ itr' = Begin(depths.map)
            /\ pc' = "CollectingInputs"
            /\ UNCHANGED msg
  /\ UNCHANGED << runs, cameras, depths, roi, cancelRequested, config,
                  cameras_out, depths_out, minpt, maxpt, volume, spacing,
                  algoAtEntry, configRead, loaded, integrate_calls, published >>

\* check_nested_algo_configuration, // Create algorithm from configuration,
\* return AbstractTool::execute(window): the tool's thread starts run().
ConfigureAlgorithm ==
  /\ pc = "ConfiguringAlgorithm"
  /\ IF ~check_nested_algo_configuration(BLOCK_IDM, config)
       THEN /\ msg' = "Configuration error"
            /\ result' = "false"
            /\ pc' = "FailedConfigError"
            /\ UNCHANGED << fuse_algo, itr >>
       ELSE /\ fuse_algo' = set_nested_algo_configuration(BLOCK_IDM, config)
            /\ result' = "true"
            /\ itr' = Begin(depths.map)
            /\ pc' = "CollectingInputs"
            /\ UNCHANGED msg
  /\ UNCHANGED << runs, cameras, depths, roi, cancelRequested, config,
                  cameras_out, depths_out, minpt, maxpt, volume, spacing,
                  algoAtEntry, configRead, loaded, integrate_calls, published >>

\* ======================================================================
\*  FuseDepthTool::run
\* ======================================================================

\* A loop that also takes the frames that have no camera.
CollectStepNoSkip ==
  /\ pc = "CollectingInputs"
  /\ itr # End
  /\ \E r \in load_depth_map(FileSystem(depths.map[itr])) :
       /\ cameras_out' = Append(cameras_out,
            IF itr \in DOMAIN cameras.map
              THEN camera_perspective_cast(cameras.map[itr]) ELSE NullCamera)
       /\ loaded' = Append(loaded, depths.map[itr])
       /\ IF r.crashed
            THEN pc' = "Crashed" /\ UNCHANGED << depths_out, itr >>
            ELSE /\ depths_out' = Append(depths_out, r.image)
                 /\ itr' = NextKey(depths.map, itr)
                 /\ UNCHANGED pc
  /\ UNCHANGED << runs, cameras, depths, roi, cancelRequested, fuse_algo,
                  config, msg, result, minpt, maxpt, volume, spacing,
                  algoAtEntry, configRead, integrate_calls, published >>

\* One iteration of  for (itr = depths->begin(); itr != depths->end(); itr++)
CollectStep ==
  /\ pc = "CollectingInputs"
  /\ itr # End
  /\ IF itr \notin DOMAIN cameras.map
       THEN \* camitr == cameras.end(): continue
            /\ itr' = NextKey(depths.map, itr)
            /\ UNCHANGED << pc, cameras_out, depths_out, loaded >>
       ELSE \E r \in load_depth_map(FileSystem(depths.map[itr])) :
            /\ cameras_out' = Append(cameras_out,
                                camera_perspective_cast(cameras.map[itr]))
            /\ loaded' = Append(loaded, depths.map[itr])
            /\ IF r.crashed
                 THEN pc' = "Crashed" /\ UNCHANGED << depths_out, itr >>
                 ELSE /\ depths_out' = Append(depths_out, r.image)
                      /\ itr' = NextKey(depths.map, itr)
                      /\ UNCHANGED pc
  /\ UNCHANGED << runs, cameras, depths, roi, cancelRequested, fuse_algo,
                  config, msg, result, minpt, maxpt, volume, spacing,
                  algoAtEntry, configRead, integrate_calls, published >>

\* The loop ends; roi->GetXMin(minptd), roi->GetXMax(maxptd).
CollectEnd ==
  /\ pc = "CollectingInputs"
  /\ itr = End
  /\ minpt' = roi.min
  /\ maxpt' = roi.max
  /\ pc' = "Integrating"
  /\ UNCHANGED << runs, cameras, depths, roi, cancelRequested, fuse_algo,
                  config, msg, result, itr, cameras_out, depths_out, volume,
                  spacing, algoAtEntry, configRead, loaded, integrate_calls,
                  published >>

\* An integration step that returns early when there is nothing to fuse.
IntegrateUnlessEmpty ==
  /\ pc = "Integrating"
  /\ IF depths_out = << >>
       THEN /\ pc' = "Done"
            /\ UNCHANGED << integrate_calls, volume, spacing >>
       ELSE /\ integrate_calls' = Append(integrate_calls,
              [ algo |-> fuse_algo, minpt |-> minpt, maxpt |-> maxpt,
                depths |-> depths_out, cameras |-> cameras_out ])
            /\ \E out \in IntegrateResults :
                 volume' = out.volume /\ spacing' = out.spacing
            /\ pc' = "Publishing"
  /\ UNCHANGED << runs, cameras, depths, roi, cancelRequested, fuse_algo,
                  config, msg, result, itr, cameras_out, depths_out, minpt,
                  maxpt, algoAtEntry, configRead, loaded, published >>

\* d->fuse_algo->integrate(minpt, maxpt, depths_out, cameras_out, volume,
\* spacing): the algorithm returns a volume and a spacing, or throws (the
\* exception leaves run() and ends the process).
Integrate ==
  /\ pc = "Integrating"
  /\ integrate_calls' = Append(integrate_calls,
       [ algo |-> fuse_algo, minpt |-> minpt, maxpt |-> maxpt,
         depths |-> depths_out, cameras |-> cameras_out ])
  /\ \/ \E out \in IntegrateResults :
          /\ volume' = out.volume
          /\ spacing' = out.spacing
          /\ pc' = "Publishing"
     \/ /\ pc' = "Crashed"
        /\ UNCHANGED << volume, spacing >>
  /\ UNCHANGED << runs, cameras, depths, roi, cancelRequested, fuse_algo,
                  config, msg, result, itr, cameras_out, depths_out, minpt,
                  maxpt, algoAtEntry, configRead, loaded, published >>

\* A publish step that places the grid at the ROI's maximum corner.
PublishAtMax ==
  /\ pc = "Publishing"
  /\ published' = Append(published, volume_to_vtk(volume, maxpt, spacing))
  /\ pc' = "Done"
  /\ UNCHANGED << runs, cameras, depths, roi, cancelRequested, fuse_algo,
                  config, msg, result, itr, cameras_out, depths_out, minpt,
                  maxpt, volume, spacing, algoAtEntry, configRead, loaded,
                  integrate_calls >>

\* vtk_volume = volume_to_vtk(volume, minpt, spacing);
\* this->updateFusion(vtk_volume);
Publish ==
  /\ pc = "Publishing"
  /\ published' = Append(published, volume_to_vtk(volume, minpt, spacing))
  /\ pc' = "Done"
  /\ UNCHANGED << runs, cameras, depths, roi, cancelRequested, fuse_algo,
                  config, msg, result, itr, cameras_out, depths_out, minpt,
                  maxpt, volume, spacing, algoAtEntry, configRead, loaded,
                  integrate_calls >>

\* AbstractTool::cancel(): the host asks the running tool to stop.
Cancel ==
  /\ pc \in RunStages
  /\ ~cancelRequested
  /\ cancelRequested' = TRUE
  /\ UNCHANGED << pc, runs, cameras, depths, roi, fuse_algo, config, msg,
                  result, itr, cameras_out, depths_out, minpt, maxpt, volume,
                  spacing, algoAtEntry, configRead, loaded, integrate_calls,
                  published >>

\* The tool as constructed, and as it is between two executions: no data,
\* no locals of execute() or run(), an empty history.
ToolIdle ==
  /\ pc = "Idle"
  /\ cameras = [ null |-> TRUE, map |-> [ f \in {} |-> NullCamera ] ]
  /\ depths = [ null |-> TRUE, map |-> [ f \in {} |-> "a.vti" ] ]
  /\ roi = [ min |-> <<-1, 0, 1>>, max |-> <<1, 2, 3>> ]
  /\ cancelRequested = FALSE
  /\ config = EmptyConfig
  /\ msg = "none"
  /\ result = "pending"
  /\ itr = End
  /\ cameras_out = << >>
  /\ depths_out = << >>
  /\ minpt = <<0, 0, 0>>
  /\ maxpt = <<0, 0, 0>>
  /\ volume = LabelledVolume(0, 0, 0, 0)
  /\ spacing = <<0, 0, 0>>
  /\ algoAtEntry = "null"
  /\ configRead = "unread"
  /\ loaded = << >>
  /\ integrate_calls = << >>
  /\ published = << >>

\* FuseDepthTool::FuseDepthTool: d_ptr(new FuseDepthToolPrivate), fuse_algo
\* is a null pointer.
ToolInit ==
  /\ ToolIdle
  /\ runs = 0
  /\ fuse_algo = "null"

\* execute() returned false, or run() returned and its thread finished: the
\* tool is idle again and keeps only fuse_algo; the host replaces the tool's
\* data before it executes it again.
Finish ==
  /\ pc \in Ended
  /\ pc' = "Idle"
  /\ cameras' = [ null |-> TRUE, map |-> [ f \in {} |-> NullCamera ] ]
  /\ depths' = [ null |-> TRUE, map |-> [ f \in {} |-> "a.vti" ] ]
  /\ roi' = [ min |-> <<-1, 0, 1>>, max |-> <<1, 2, 3>> ]
  /\ cancelRequested' = FALSE
  /\ config' = EmptyConfig
  /\ msg' = "none"
  /\ result' = "pending"
  /\ itr' = End
  /\ cameras_out' = << >>
  /\ depths_out' = << >>
  /\ minpt' = <<0, 0, 0>>
  /\ maxpt' = <<0, 0, 0>>
  /\ volume' = LabelledVolume(0, 0, 0, 0)
  /\ spacing' = <<0, 0, 0>>
  /\ algoAtEntry' = "null"
  /\ configRead' = "unread"
  /\ loaded' = << >>
  /\ integrate_calls' = << >>
  /\ published' = << >>
  /\ UNCHANGED << runs, fuse_algo >>

\* ======================================================================
\*  Specifications
\* ======================================================================
CodecIdle ==
  /\ cd_pc = "idle"
  /\ cd_file = VtiFile(FALSE, <<0, 0, 0>>, "absent", 0)
  /\ cd_image = NewImage(0, 0, 0)

AdaptIdle ==
  /\ va_pc = "idle"
  /\ va_volume = LabelledVolume(0, 0, 0, 0)
  /\ va_origin = <<0, 0, 0>>
  /\ va_spacing = <<1, 1, 1>>
  /\ va_grid = volume_to_vtk(LabelledVolume(0, 0, 0, 0), <<0, 0, 0>>, <<1, 1, 1>>)

Init == ToolInit /\ CodecIdle /\ AdaptIdle

Next ==
  \/ (Execute /\ UNCHANGED << codecVars, adaptVars >>)
  \/ (ValidateInputs /\ UNCHANGED << codecVars, adaptVars >>)
  \/ (LoadConfig /\ UNCHANGED << codecVars, adaptVars >>)
  \/ (ConfigureAlgorithm /\ UNCHANGED << codecVars, adaptVars >>)
  \/ (CollectStep /\ UNCHANGED << codecVars, adaptVars >>)
  \/ (CollectEnd /\ UNCHANGED << codecVars, adaptVars >>)
  \/ (Integrate /\ UNCHANGED << codecVars, adaptVars >>)
  \/ (Publish /\ UNCHANGED << codecVars, adaptVars >>)
  \/ (Cancel /\ UNCHANGED << codecVars, adaptVars >>)
  \/ (Finish /\ UNCHANGED << codecVars, adaptVars >>)

Spec == Init /\ [][Next]_vars

\* ----------------------------------------------------- load_depth_map alone
\* Every depth-map file up to the bounds: readable or not, with a double
\* "Depths" array, a float one or none.
CodecFiles ==
  { VtiFile(r, <<w, h, nz>>, t, seed) :
      r \in BOOLEAN, w \in 0..MaxW, h \in 0..MaxH, nz \in 1..MaxNz,
      t \in DepthsTypes, seed \in 0..MaxSeed }

CodecInit ==
  /\ cd_pc = "ready"
  /\ cd_file \in CodecFiles
  /\ cd_image = NewImage(0, 0, 0)

\* image = load_depth_map(filename)
LoadDepthMap ==
  /\ cd_pc = "ready"
  /\ \E r \in load_depth_map(cd_file) :
       /\ cd_pc' = IF r.crashed THEN "crashed" ELSE "returned"
       /\ cd_image' = r.image
  /\ UNCHANGED << cd_file, toolVars, adaptVars >>

NextCodec == LoadDepthMap

InitCodec == ToolInit /\ CodecInit /\ AdaptIdle

SpecCodec == InitCodec /\ [][NextCodec]_vars

\* ------------------------------------------------------ volume_to_vtk alone
Coords   == -1 .. MaxCoord
Spacings == 1 .. MaxSpace

AdaptInit ==
  /\ va_pc = "ready"
  /\ va_volume \in { LabelledVolume(w, h, d, seed) :
                       w \in 0..MaxDim, h \in 0..MaxDim, d \in 0..MaxDim,
                       seed \in 0..MaxSeed }
  /\ va_origin \in { <<x, 0, 0 - x>> : x \in Coords }
  /\ va_spacing \in { <<s, 1, s>> : s \in Spacings }
  /\ va_grid = volume_to_vtk(LabelledVolume(0, 0, 0, 0), <<0, 0, 0>>, <<1, 1, 1>>)

\* grid = volume_to_vtk(volume, origin, spacing)
VolumeToVtk ==
  /\ va_pc = "ready"
  /\ va_grid' = volume_to_vtk(va_volume, va_origin, va_spacing)
  /\ va_pc' = "returned"
  /\ UNCHANGED << va_volume, va_origin, va_spacing, toolVars, codecVars >>

NextAdapter == VolumeToVtk

InitAdapter == ToolInit /\ CodecIdle /\ AdaptInit

SpecAdapter == InitAdapter /\ [][NextAdapter]_vars

\* ======================================================================
\*  Properties
\* ======================================================================

\* The frames that have both a camera and a depth map, in ascending order.
CommonFrames == DOMAIN cameras.map \cap DOMAIN depths.map
RECURSIVE Ascending(_)
Ascending(S) ==
  IF S = {} THEN << >>
  ELSE LET least == CHOOSE k \in S : \A j \in S : k <= j
       IN  << least >> \o Ascending(S \ { least })

AfterLoop == pc \in { "Integrating", "Publishing", "Done" }

\* C1: after the collection loop the lists handed to integrate() hold exactly
\* one entry per frame that is a key of both the camera map and the depth
\* lookup, none for any other frame, and entry i of both lists comes from the
\* same frame.
C1_PairsAreCommonFrames ==
  (AfterLoop \/ integrate_calls # << >>) =>
    LET keys == Ascending(CommonFrames)
    IN  /\ Len(cameras_out) = Cardinality(CommonFrames)
        /\ Len(depths_out) = Cardinality(CommonFrames)
        /\ \A i \in 1 .. Len(keys) :
             /\ cameras_out[i] =
                  IF cameras.map[keys[i]].kind = "perspective"
                    THEN cameras.map[keys[i]] ELSE NullCamera
             /\ \E r \in load_depth_map(FileSystem(depths.map[keys[i]])) :
                  ~r.crashed /\ depths_out[i] = r.image
        /\ \A c \in 1 .. Len(integrate_calls) :
             /\ integrate_calls[c].cameras = cameras_out
             /\ integrate_calls[c].depths = depths_out

\* integrate() was called with one pair while a frame of the depth lookup
\* that has no camera was skipped.
C1_Witness ==
  /\ Len(integrate_calls) = 1
  /\ DOMAIN depths.map = { 1, 2 }
  /\ DOMAIN cameras.map = { 2 }
  /\ Len(integrate_calls[1].depths) = 1

NothingDone ==
  /\ cameras_out = << >>
  /\ depths_out = << >>
  /\ loaded = << >>
  /\ integrate_calls = << >>
  /\ published = << >>

\* C2: if the camera set or the depth lookup is missing or empty, execute()
\* fails at once with the insufficient-data signal and returns false; no
\* configuration is read, no algorithm is built, no depth map is loaded,
\* integrate() is not called and nothing is published.
C2_InsufficientDataFailsFast ==
  ( /\ pc \notin { "Idle", "ValidatingInputs" }
    /\ \/ cameras.null \/ DOMAIN cameras.map = {}
       \/ depths.null  \/ DOMAIN depths.map = {} )
  => /\ pc = "FailedInsufficientData"
     /\ result = "false"
     /\ msg = "Insufficient data"
     /\ configRead = "unread"
     /\ fuse_algo = algoAtEntry
     /\ NothingDone

\* A run that failed because the depth lookup is empty although cameras are
\* present, on a tool that already holds an algorithm from an earlier run.
C2_Witness ==
  /\ pc = "FailedInsufficientData"
  /\ ~cameras.null /\ DOMAIN cameras.map # {}
  /\ ~depths.null /\ DOMAIN depths.map = {}
  /\ algoAtEntry # "null"

ConfigFailed ==
  /\ pc = "FailedConfigError"
  /\ result = "false"
  /\ msg = "Configuration error"
  /\ fuse_algo = algoAtEntry
  /\ NothingDone

\* C3: if the configuration resource is not found, or the nested
\* integrate_depth_maps configuration is not valid, execute() fails with the
\* configuration-error signal and returns false, fuse_algo is left as it was,
\* and the run never collects inputs, integrates or publishes.
C3_ConfigErrorBuildsNothing ==
  /\ configRead = "missing" => ConfigFailed
  /\ ( /\ configRead = "found"
       /\ pc # "ConfiguringAlgorithm"
       /\ ~(TypeKey \in DOMAIN config /\ config[TypeKey] \in { "cuda", "mvg" }) )
     => ConfigFailed

\* A run that failed on an unregistered algorithm type, on a tool that
\* already holds an algorithm from an earlier run.
C3_Witness ==
  /\ pc = "FailedConfigError"
  /\ configRead = "found"
  /\ TypeKey \in DOMAIN config
  /\ algoAtEntry = "mvg"

\* C4: for a readable width x height file with a double "Depths" array v,
\* load_depth_map returns an image of that width and height with
\* depth.at(x, y) = v[height-1-y][x]; each pixel is written exactly once.
C4_RowsInverted ==
  ( /\ cd_pc = "returned"
    /\ cd_file.readable
    /\ cd_file.depthsType = "double" )
  => LET w == cd_file.dims[1]
         h == cd_file.dims[2]
         v(y, x) == cd_file.points[y * w + x]
     IN  /\ cd_image.width = w
         /\ cd_image.height = h
         /\ \A x \in Range(w), y \in Range(h) :
              /\ cd_image.px[<<x, y, 0>>] = v(h - 1 - y, x)
              /\ cd_image.wr[<<x, y, 0>>] = 1
         /\ cd_file.dims[3] = 1 =>
              /\ DOMAIN cd_image.px = Range(w) \X Range(h) \X { 0 }
              /\ \A p \in DOMAIN cd_image.wr : cd_image.wr[p] = 1

\* load_depth_map returned the image of a 2 x 3 file.
C4_Witness ==
  /\ cd_pc = "returned"
  /\ cd_file.readable
  /\ cd_file.depthsType = "double"
  /\ cd_file.dims = <<2, 3, 1>>
  /\ cd_image.px[<<1, 2, 0>>] = cd_file.points[1]

\* C5: volume_to_vtk builds one array named "reconstruction_scalar" with
\* width*height*depth one-component values, the value at index
\* (k*height + j)*width + i being voxel (i, j, k); a volume with a zero
\* dimension gives an empty array.
C5_ScalarsInIndexOrder ==
  va_pc = "returned" =>
    LET w == va_volume.width
        h == va_volume.height
        d == va_volume.depth
    IN  /\ Len(va_grid.cellData) = 1
        /\ va_grid.cellData[1].name = "reconstruction_scalar"
        /\ va_grid.cellData[1].components = 1
        /\ DOMAIN va_grid.cellData[1].tuples = Range(w * h * d)
        /\ \A i \in Range(w), j \in Range(h), k \in Range(d) :
             va_grid.cellData[1].tuples[(k * h + j) * w + i]
               = va_volume.px[<<i, j, k>>]
        /\ (w = 0 \/ h = 0 \/ d = 0) => DOMAIN va_grid.cellData[1].tuples = {}

\* volume_to_vtk returned the grid of a 2 x 2 x 2 volume.
C5_Witness ==
  /\ va_pc = "returned"
  /\ va_volume.width = 2 /\ va_volume.height = 2 /\ va_volume.depth = 2
  /\ DOMAIN va_grid.cellData[1].tuples = 0 .. 7

\* C6: the grid of volume_to_vtk spans on each axis from origin to
\* origin + dimension * spacing, and it has as many cells as scalar values.
C6_ExtentIsDimensionTimesSpacing ==
  (va_pc = "returned" /\ HasPoints(va_grid)) =>
    LET size == << va_volume.width, va_volume.height, va_volume.depth >>
    IN  /\ \A a \in 1 .. 3 :
             /\ BoundMin(va_grid, a) = va_origin[a]
             /\ BoundMax(va_grid, a) = va_origin[a] + size[a] * va_spacing[a]
        /\ NumberOfCells(va_grid)
             = Cardinality(DOMAIN va_grid.cellData[1].tuples)

\* C7: when the camera map and the depth lookup share no frame, the run
\* loads no depth map and calls integrate() exactly once, with both lists
\* empty.
C7_ZeroOverlapIntegratesEmpty ==
  (CommonFrames = {} /\ pc \in RunStages \cup { "Done", "Crashed" }) =>
    /\ loaded = << >>
    /\ pc \in { "CollectingInputs", "Integrating" } => integrate_calls = << >>
    /\ pc \in { "Publishing", "Done", "Crashed" } =>
         /\ Len(integrate_calls) = 1
         /\ integrate_calls[1].depths = << >>
         /\ integrate_calls[1].cameras = << >>

\* A run with cameras and depth maps for different frames ran to its end.
C7_Witness ==
  /\ pc = "Done"
  /\ DOMAIN cameras.map = { 1 }
  /\ DOMAIN depths.map = { 2 }
  /\ Len(integrate_calls) = 1
  /\ Len(published) = 1

\* The steps of a run, in the order of its stages; a run can also end in the
\* middle of a stage (the process ends), and an ended run leaves the tool idle.
StageOrder ==
  { << "Idle", "ValidatingInputs" >>,
    << "ValidatingInputs", "LoadingConfig" >>,
    << "ValidatingInputs", "FailedInsufficientData" >>,
    << "LoadingConfig", "ConfiguringAlgorithm" >>,
    << "LoadingConfig", "FailedConfigError" >>,
    << "ConfiguringAlgorithm", "CollectingInputs" >>,
    << "ConfiguringAlgorithm", "FailedConfigError" >>,
    << "CollectingInputs", "Integrating" >>,
    << "Integrating", "Publishing" >>,
    << "Publishing", "Done" >>,
    << "CollectingInputs", "Crashed" >>,
    << "Integrating", "Crashed" >>,
    << "Done", "Idle" >>,
    << "FailedInsufficientData", "Idle" >>,
    << "FailedConfigError", "Idle" >> }

C8_Step ==
  /\ pc' # pc => << pc, pc' >> \in StageOrder
  /\ (pc' # "Idle" /\ integrate_calls' # integrate_calls) =>
       /\ pc = "Integrating"
       /\ integrate_calls = << >>
       /\ Len(integrate_calls') = 1
       /\ configRead = "found"
       /\ TypeKey \in DOMAIN config
       /\ config[TypeKey] \in { "cuda", "mvg" }
       /\ integrate_calls'[1].algo = config[TypeKey]
  /\ (pc' # "Idle" /\ published' # published) =>
       /\ pc = "Publishing"
       /\ Len(integrate_calls) = 1
       /\ published = << >>
       /\ Len(published') = 1
       /\ published'[1].origin = roi.min

\* C8: a run only moves forward through ValidatingInputs, LoadingConfig,
\* ConfiguringAlgorithm, CollectingInputs, Integrating, Publishing, Done; the
\* two Failed stages end the run; integrate() is called only with the
\* algorithm built from the validated configuration; updateFusion() is called
\* at most once per run, after integrate() returned, with the ROI's minimum
\* point as the grid's origin.
C8_LinearRun == [][C8_Step]_vars

\* A second run of the tool published its grid.
C8_Witness ==
  /\ pc = "Done"
  /\ runs = 2
  /\ Len(published) = 1
  /\ published[1].origin = <<-1, 0, 1>>

\* A file that load_depth_map cannot decode: unreadable, or without a
\* double-typed "Depths" array.
Undecodable(name) ==
  ~FileSystem(name).readable \/ FileSystem(name).depthsType # "double"

\* C9: once a depth-map file that cannot be decoded was read, the run goes
\* no further: integrate() is not called and nothing is published.
C9_DecodeErrorAborts ==
  (\E i \in 1 .. Len(loaded) : Undecodable(loaded[i])) =>
    /\ integrate_calls = << >>
    /\ published = << >>

\* C10: once the host has requested cancellation, the run loads no further
\* depth map, does not call integrate() and publishes nothing.
C10_CancelStopsRun ==
  [][ (cancelRequested /\ pc' # "Idle") =>
        /\ loaded' = loaded
        /\ integrate_calls' = integrate_calls
        /\ published' = published ]_vars

====
